---- MODULE Spec2Model ----
(***************************************************************************)
(* Model of schema2dts (src/src/index.ts): the schema-to-type translation  *)
(* (schemaToTypes, buildObjectTypeNode, buildArrayTypeNode,                *)
(* buildLiteralType), the two entry points generateJSONSchemaTypes and     *)
(* generateOpenAPITypes with their reference resolution loops, and the     *)
(* namespace tree (buildTree, buildModuleDeclarations).                    *)
(*                                                                         *)
(* Representation.                                                         *)
(*  - A JavaScript string that is a reference is a sequence of tokens: "#",*)
(*    "/" and segment names; no two names are adjacent, so the segments    *)
(*    that split('/') yields are the name tokens.                          *)
(*  - A schema object is a record holding exactly the keys that are        *)
(*    present.  A boolean schema is [jsBoolean |-> b], the value undefined *)
(*    is [jsUndefined |-> TRUE].                                           *)
(*  - `type` and `items` are string-or-array (schema-or-array) in JSON     *)
(*    Schema: [isArray |-> b, tags |-> seq] and [isArray |-> b, schemas    *)
(*    |-> seq].                                                            *)
(*  - `properties` / `patternProperties` are ordered maps: sequences of    *)
(*    [name, schema] in Object.keys order.  The ordered maps of an OpenAPI *)
(*    document are sequences too: `paths` of [path, methods], `methods` of *)
(*    [method, operation], `content` of [name, media], `responses` of      *)
(*    [code, response], `headers` of [name, header].                       *)
(*  - A JSON value is [t |-> typeof value, v |-> its text].                *)
(*  - A TypeScript node is a record with a `kind` field.                   *)
(*  - A translation returns [errs, types, refs]: the errors that may be    *)
(*    the one the awaited promise rejects with (empty on success), the     *)
(*    returned type nodes, and the references handed to                    *)
(*    context.nameResolver, in call order.                                 *)
(***************************************************************************)
EXTENDS Integers, Sequences, FiniteSets, TLC

(***************************************************************************)
(* Bounds of the explored inputs.                                          *)
(***************************************************************************)
MaxTags == 3
MaxEnum == 2
MaxBranches == 2
MaxProps == 2
MaxPasses == 4

(***************************************************************************)
(* Generic helpers.                                                        *)
(***************************************************************************)
Range(s) == {s[i] : i \in 1..Len(s)}

RECURSIVE Flatten(_)
Flatten(ss) == IF ss = <<>> THEN <<>> ELSE Head(ss) \o Flatten(Tail(ss))

\* the distinct elements of s, each at the place of its first occurrence
Dedup(s) ==
  LET first == {i \in 1..Len(s) : \A j \in 1..(i - 1) : s[j] # s[i]}
      nth(k) == CHOOSE i \in first : Cardinality({j \in first : j <= i}) = k
  IN [k \in 1..Cardinality(first) |-> s[nth(k)]]

SeqsUpTo(S, n) == UNION {[1..k -> S] : k \in 0..n}

\* the element of a set of one element; The({F(v) : v \in {e}}) is F(e) with
\* e computed once, as the code computes a value into a const
The(S) == CHOOSE x \in S : TRUE

(***************************************************************************)
(* Reference strings and splitRef.                                         *)
(***************************************************************************)
RefA == <<"#", "/", "definitions", "/", "A">>
RefA2 == <<"definitions", "/", "A", "/">>
RefB == <<"#", "/", "definitions", "/", "B">>
RefC == <<"#", "/", "definitions", "/", "C">>
RefRoot == <<"#", "/">>
RefTop == <<"#", "/", "A">>
RefEmpty == <<>>

StripAnchor(ref) ==
  IF Len(ref) >= 2 /\ ref[1] = "#" /\ ref[2] = "/"
  THEN SubSeq(ref, 3, Len(ref))
  ELSE ref

IsSegment(tok) == tok # "/"

splitRef(ref) == SelectSeq(StripAnchor(ref), IsSegment)

\* part.replace(/(?:^|[^a-z0-9]+)([a-z])/gi, upper-case of the letter), on the
\* names the documents and the adapter use
buildIdentifier(part) ==
  CASE part = "definitions" -> "Definitions"
    [] part = "main" -> "Main"
    [] part = "components" -> "Components"
    [] part = "schemas" -> "Schemas"
    [] part = "__api_request_bodies" -> "ApiRequestBodies"
    [] part = "__api_responses" -> "ApiResponses"
    [] part = "__api_parameters" -> "ApiParameters"
    [] part = "getPing" -> "GetPing"
    [] part = "putPing" -> "PutPing"
    [] part = "limit" -> "Limit"
    [] part = "max" -> "Max"
    [] part = "cursor" -> "Cursor"
    [] part \in {"A", "B", "C", "Bad", "#", "Limit", "Unknown", "API", "Body", "Body0",
                 "Body1", "Body2", "Responses", "Parameters", "Input", "Output",
                 "$200", "$404", "$default", "Response200", "Response404",
                 "Responsedefault", "Schema0", "Schema1", "Schema2"} -> part

\* camelCase of the `camelcase` package, on the names the documents use
camelCase(name) ==
  CASE name = "X-Rate" -> "xRate"
    [] name = "X-Total" -> "xTotal"
    [] name \in {"body", "limit", "max", "cursor"} -> name

\* parseInt(status, 10), as the text of the number
parseInt(status) ==
  CASE status = "200" -> "200"
    [] status = "202" -> "202"
    [] status = "204" -> "204"
    [] status = "404" -> "404"
    [] status = "2XX" -> "2"

(***************************************************************************)
(* TypeScript nodes.                                                       *)
(***************************************************************************)
Undefined == [jsUndefined |-> TRUE]
UndefinedNode == [kind |-> "undefined"]
Keyword(n) == [kind |-> "keyword", name |-> n]
Literal(l, text) == [kind |-> "literal", lit |-> l, text |-> text]
UnionType(ts) == [kind |-> "union", types |-> ts]
IntersectionType(ts) == [kind |-> "intersection", types |-> ts]
NonNullable(t) == [kind |-> "NonNullable", arg |-> t]
ArrayType(t) == [kind |-> "array", elem |-> t]
TypeLiteral(els) == [kind |-> "typeLiteral", members |-> els]
PropertySignature(ro, n, opt, t) ==
  [kind |-> "property", readonly |-> ro, name |-> n, optional |-> opt, type |-> t]
IndexSignature(ro, q, t) ==
  [kind |-> "index", readonly |-> ro, question |-> q, type |-> t]
TypeReference(ids) == [kind |-> "reference", names |-> ids]

buildTypeReference(parts) ==
  TypeReference([i \in 1..Len(parts) |-> buildIdentifier(parts[i])])

buildLiteralType(value) ==
  CASE value.t = "number" -> Literal("numeric", value.v)
    [] value.t = "string" -> Literal("string", value.v)
    [] value.t = "boolean" -> Literal(IF value.v = "true" THEN "true" ELSE "false", value.v)
    [] value.t = "object" -> Literal("null", "null")
    [] OTHER -> UndefinedNode

\* types.length > 1 ? ts.createUnionTypeNode(types) : types[0]
UnionIfSeveral(ts) ==
  IF Len(ts) > 1 THEN UnionType(ts)
  ELSE IF Len(ts) = 1 THEN ts[1] ELSE UndefinedNode

(***************************************************************************)
(* JSON values.                                                            *)
(***************************************************************************)
JsNull == [t |-> "object", v |-> "null"]
JsOne == [t |-> "number", v |-> "1"]
JsHop == [t |-> "string", v |-> "hop"]
JsTrue == [t |-> "boolean", v |-> "true"]
JsObject == [t |-> "object", v |-> "{}"]

IsLiteralValue(value) == value.t \in {"number", "string", "boolean"}

(***************************************************************************)
(* Translation results.                                                    *)
(***************************************************************************)
Ok(ts, rs) == [errs |-> {}, types |-> ts, refs |-> rs]
Fail(e) == [errs |-> {e}, types |-> <<>>, refs |-> <<>>]
ErrsOf(rs) == UNION {rs[i].errs : i \in 1..Len(rs)}
RefsOf(rs) == Flatten([i \in 1..Len(rs) |-> rs[i].refs])

\* the values of `type` and `items`, and a schema holding a $ref
Type(tag) == [isArray |-> FALSE, tags |-> <<tag>>]
TypeList(tags) == [isArray |-> TRUE, tags |-> tags]
Item(s) == [isArray |-> FALSE, schemas |-> <<s>>]
ItemList(ss) == [isArray |-> TRUE, schemas |-> ss]
RefSchema(ref) == "$ref" :> ref

IsBoolean(schema) == "jsBoolean" \in DOMAIN schema
IsUndefined(schema) == "jsUndefined" \in DOMAIN schema
Truthy(schema) == ~(IsBoolean(schema) /\ ~schema.jsBoolean)
Has(schema, key) == key \in DOMAIN schema
ReadOnlyOf(property) == Has(property, "readOnly") /\ property.readOnly
RequiredOf(schema) == IF Has(schema, "required") THEN schema.required ELSE <<>>

(***************************************************************************)
(* schemaToTypes and its builders.                                         *)
(***************************************************************************)
\* (schema.anyOf || schema.allOf || schema.oneOf) as Schema[]
CombinatorBranches(schema) ==
  IF Has(schema, "anyOf") THEN schema.anyOf
  ELSE IF Has(schema, "allOf") THEN schema.allOf
  ELSE schema.oneOf

\* a combinator step that joins allOf branches as a union too
CombineBranchesAsUnion(schema, ts) == UnionType(ts)

\* if (schema.oneOf) union; else if (schema.anyOf) union; else if (schema.allOf) intersection
CombineBranches(schema, ts) ==
  IF Has(schema, "oneOf") THEN UnionType(ts)
  ELSE IF Has(schema, "anyOf") THEN UnionType(ts)
  ELSE IntersectionType(ts)

IsNotNullTag(tag) == tag # "null"

\* a type step that wraps whether or not "null" is listed
WrapTypesAlways(isNullable, typesParameters) ==
  [i \in 1..Len(typesParameters) |-> NonNullable(typesParameters[i])]

\* isNullable ? typesParameters : typesParameters.map(NonNullable)
WrapTypes(isNullable, typesParameters) ==
  IF isNullable THEN typesParameters
  ELSE [i \in 1..Len(typesParameters) |-> NonNullable(typesParameters[i])]

\* schema.enum.filter(v => v !== null).every(v => typeof v is number/string/boolean)
AllEnumValuesAreLiteral(enum) ==
  \A i \in 1..Len(enum) : enum[i] # JsNull => IsLiteralValue(enum[i])

\* an enum step that drops the null members before mapping
EnumTypesWithoutNull(enum) ==
  LET IsNotNull(value) == value # JsNull
      values == SelectSeq(enum, IsNotNull)
  IN [i \in 1..Len(values) |-> buildLiteralType(values[i])]

\* schema.enum.map(buildLiteralType)
EnumTypes(enum) == [i \in 1..Len(enum) |-> buildLiteralType(enum[i])]

\* (schema.items instanceof Array ? schema.items : [schema.items]).filter(not boolean)
IsNotBooleanSchema(s) == ~IsBoolean(s)
ItemSchemas(schema) ==
  SelectSeq(IF Has(schema, "items") THEN schema.items.schemas ELSE <<Undefined>>,
            IsNotBooleanSchema)

\* the reduce of buildObjectTypeNode starts from false and combines with &&
IndexFlag(flags) == FALSE /\ \A i \in 1..Len(flags) : flags[i]

\* the if / else-if chain of schemaToTypes: which step handles the schema
Dispatch(schema) ==
  IF Has(schema, "$ref") /\ schema["$ref"] # <<>> THEN "$ref"
  ELSE IF Has(schema, "const") THEN "const"
  ELSE IF Has(schema, "enum") THEN "enum"
  ELSE IF Has(schema, "type") THEN "type"
  ELSE IF Has(schema, "anyOf") \/ Has(schema, "allOf") \/ Has(schema, "oneOf")
  THEN "combinator"
  ELSE "none"

\* a field whose question token is set for the required names
PropertyFieldFlipped(schema, property, types) ==
  PropertySignature(ReadOnlyOf(property.schema),
                    property.name,
                    property.name \in Range(RequiredOf(schema)),
                    UnionIfSeveral(types))

\* one createPropertySignature of buildObjectTypeNode
PropertyField(schema, property, types) ==
  PropertySignature(ReadOnlyOf(property.schema),
                    property.name,
                    property.name \notin Range(RequiredOf(schema)),
                    UnionIfSeveral(types))

\* the sources without the one of additionalProperties
IndexSourcesWithoutAdditional(schema, builtPatterns) ==
  LET patterns == IF Has(schema, "patternProperties")
                  THEN schema.patternProperties ELSE <<>>
  IN [i \in 1..Len(patterns) |->
        [type |-> UnionIfSeveral(builtPatterns[i].types),
         required |-> patterns[i].name \in Range(RequiredOf(schema)),
         readOnly |-> ReadOnlyOf(patterns[i].schema)]]

\* the sources of the index signature: one per pattern property, then the
\* one of a truthy additionalProperties (lines 717-745)
IndexSources(schema, builtPatterns) ==
  LET patterns == IF Has(schema, "patternProperties")
                  THEN schema.patternProperties ELSE <<>>
  IN [i \in 1..Len(patterns) |->
        [type |-> UnionIfSeveral(builtPatterns[i].types),
         required |-> patterns[i].name \in Range(RequiredOf(schema)),
         readOnly |-> ReadOnlyOf(patterns[i].schema)]]
     \o (IF Has(schema, "additionalProperties")
             /\ Truthy(schema.additionalProperties)
         THEN <<[type |-> Keyword("any"), required |-> FALSE, readOnly |-> FALSE]>>
         ELSE <<>>)

RECURSIVE schemaToTypes(_), buildObjectTypeNode(_), buildArrayTypeNode(_)

TagTypes(schema, tag) ==
  CASE tag = "any" -> Ok(<<Keyword("any")>>, <<>>)
    [] tag = "boolean" -> Ok(<<Keyword("boolean")>>, <<>>)
    [] tag = "integer" -> Ok(<<Keyword("number")>>, <<>>)
    [] tag = "number" -> Ok(<<Keyword("number")>>, <<>>)
    [] tag = "string" -> Ok(<<Keyword("string")>>, <<>>)
    [] tag = "object" -> buildObjectTypeNode(schema)
    [] tag = "array" -> buildArrayTypeNode(schema)
    [] OTHER -> Fail("E_BAD_TYPE")

\* the result of a step whose sub-translations are `built`: their first
\* error, or the nodes made of them with the references they registered
Built(built, nodes) ==
  IF ErrsOf(built) # {}
  THEN [errs |-> ErrsOf(built), types |-> <<>>, refs |-> <<>>]
  ELSE Ok(nodes, RefsOf(built))

schemaToTypes(schema) ==
  IF IsUndefined(schema) THEN Fail("TypeError")
  ELSE IF IsBoolean(schema) THEN
    (IF schema.jsBoolean THEN Ok(<<Keyword("any")>>, <<>>)
     ELSE Ok(<<Keyword("never")>>, <<>>))
  ELSE CASE Dispatch(schema) = "$ref" ->
         Ok(<<buildTypeReference(splitRef(schema["$ref"]))>>, <<schema["$ref"]>>)
    [] Dispatch(schema) = "const" ->
         Ok(<<buildLiteralType(schema.const)>>, <<>>)
    [] Dispatch(schema) = "enum" ->
         (IF AllEnumValuesAreLiteral(schema.enum)
          THEN Ok(EnumTypes(schema.enum), <<>>)
          ELSE Fail("E_UNSUPPORTED_ENUM"))
    [] Dispatch(schema) = "type" ->
         LET types == schema.type.tags
             isNullable == "null" \in Range(types)
             tags == SelectSeq(types, IsNotNullTag)
             Wrapped(built) ==
               WrapTypes(isNullable, [i \in 1..Len(built) |-> built[i].types[1]])
             Types(built) == Built(built, Wrapped(built))
         IN The({Types(once) : once \in
                  {[i \in 1..Len(tags) |-> TagTypes(schema, tags[i])]}})
    [] Dispatch(schema) = "combinator" ->
         LET branches == CombinatorBranches(schema)
             Combined(built) ==
               <<CombineBranches(schema, [i \in 1..Len(built) |->
                                            UnionIfSeveral(built[i].types)])>>
             Types(built) == Built(built, Combined(built))
         IN The({Types(once) : once \in
                  {[i \in 1..Len(branches) |-> schemaToTypes(branches[i])]}})
    [] OTHER -> Fail("E_UNSUPPORTED_SCHEMA")

buildObjectTypeNode(schema) ==
  LET properties == IF Has(schema, "properties") THEN schema.properties ELSE <<>>
      required == RequiredOf(schema)
      additional == Has(schema, "additionalProperties")
                      /\ Truthy(schema.additionalProperties)
      hasIndex == Has(schema, "patternProperties") \/ additional
      patterns == IF Has(schema, "patternProperties")
                  THEN schema.patternProperties ELSE <<>>
      Fields(built) ==
        [i \in 1..Len(properties) |->
           PropertyField(schema, properties[i], built[i].types)]
      Index(builtPatterns) ==
        LET sources == IndexSources(schema, builtPatterns)
        IN IndexSignature(
             IndexFlag([i \in 1..Len(sources) |-> sources[i].readOnly]),
             IndexFlag([i \in 1..Len(sources) |-> sources[i].required]),
             UnionType([i \in 1..Len(sources) |-> sources[i].type]))
      Node(built) ==
        IF ErrsOf(built.properties) # {}
        THEN [errs |-> ErrsOf(built.properties), types |-> <<>>, refs |-> <<>>]
        ELSE IF hasIndex /\ ErrsOf(built.patterns) # {}
        THEN [errs |-> ErrsOf(built.patterns), types |-> <<>>, refs |-> <<>>]
        ELSE Ok(<<TypeLiteral(Fields(built.properties)
                                \o (IF hasIndex THEN <<Index(built.patterns)>>
                                    ELSE <<>>))>>,
                RefsOf(built.properties)
                  \o (IF hasIndex THEN RefsOf(built.patterns) ELSE <<>>))
  IN The({Node(once) : once \in
           {[properties |-> [i \in 1..Len(properties) |->
                               schemaToTypes(properties[i].schema)],
             patterns |-> [i \in 1..Len(patterns) |->
                             schemaToTypes(patterns[i].schema)]]}})

buildArrayTypeNode(schema) ==
  LET schemas == ItemSchemas(schema)
      Node(built) ==
        LET types == Flatten([i \in 1..Len(built) |-> built[i].types])
            type == UnionIfSeveral(types)
        IN IF Has(schema, "minItems") /\ Has(schema, "maxItems")
                /\ schema.minItems > schema.maxItems
           THEN <<Keyword("never")>>
           ELSE <<ArrayType(type)>>
      Types(built) == Built(built, Node(built))
  IN The({Types(once) : once \in
           {[i \in 1..Len(schemas) |-> schemaToTypes(schemas[i])]}})

(***************************************************************************)
(* generateTypeDeclaration.                                                *)
(***************************************************************************)
NoDeclaration == [kind |-> "none"]

TypeAliasDeclaration(root, name, type) ==
  [kind |-> "typeAlias",
   modifier |-> IF root THEN "declare" ELSE "export",
   name |-> name,
   type |-> type]

\* name || (schema && schema.title) || 'Unknown'; callers of the model pass a name
generateTypeDeclaration(root, schema, name) ==
  LET Declaration(built) ==
        [errs |-> built.errs,
         refs |-> built.refs,
         types |-> built.types,
         type |-> IF built.errs = {}
                  THEN TypeAliasDeclaration(root, buildIdentifier(name),
                                            UnionIfSeveral(built.types))
                  ELSE NoDeclaration]
  IN The({Declaration(once) : once \in {schemaToTypes(schema)}})

(***************************************************************************)
(* resolve, and one callback of the reference loop.                        *)
(***************************************************************************)
RECURSIVE resolve(_, _)
resolve(cur, parts) ==
  LET Step(object) ==
        IF parts = <<>> THEN [threw |-> FALSE, value |-> object]
        ELSE IF IsUndefined(object) THEN [threw |-> TRUE, value |-> Undefined]
        ELSE resolve(IF Has(object, Head(parts)) THEN object[Head(parts)]
                     ELSE Undefined,
                     Tail(parts))
  IN The({Step(once) : once \in {cur}})

FailedBuild(e) ==
  [errs |-> {e}, refs |-> <<>>, types |-> <<>>, type |-> NoDeclaration, parts |-> <<>>]

\* a callback that never passes root: true
BuildRefExported(schema, ref) ==
  CHOOSE build \in
    {IF subSchema.threw \/ parts = <<>> THEN FailedBuild("TypeError")
     ELSE generateTypeDeclaration(FALSE, subSchema.value, parts[Len(parts)])
            @@ [parts |-> parts] :
       parts \in {splitRef(ref)}, subSchema \in {resolve(schema, splitRef(ref))}} : TRUE

\* refsToBuild.map(async (ref) => ...) for one ref; parts and subSchema are
\* the values the callback computes once
BuildRef(schema, ref) ==
  CHOOSE build \in
    {IF subSchema.threw \/ parts = <<>> THEN FailedBuild("TypeError")
     ELSE generateTypeDeclaration(Len(parts) = 1, subSchema.value, parts[Len(parts)])
            @@ [parts |-> parts] :
       parts \in {splitRef(ref)}, subSchema \in {resolve(schema, splitRef(ref))}} : TRUE

\* seenRefs[ref] = true for each ref, keys kept in insertion order
RegisterRefs(seenRefs, refs) == Dedup(seenRefs \o refs)

\* a pass that forgets to record what it built
MarkBuiltNothing(builtRefs, refsToBuild) == builtRefs

\* builtRefs[ref] = true for every ref of the pass
MarkBuilt(builtRefs, refsToBuild) == builtRefs \cup Range(refsToBuild)

\* a loop that never looks at the references found while it runs
UnbuiltRefsNone(seenRefs, builtRefs) == <<>>

\* Object.keys(seenRefs).filter((ref) => !builtRefs[ref])
UnbuiltRefs(seenRefs, builtRefs) ==
  LET NotBuilt(ref) == ref \notin builtRefs
  IN SelectSeq(seenRefs, NotBuilt)

\* a pass that swallows the rejections of its callbacks
PassErrorsSwallowed(builds) == {}

\* the errors Promise.all may reject with for one pass
PassErrors(builds) == ErrsOf(builds)

\* the { type, parts } pairs a pass adds to sideTypes
PassSideTypes(builds) ==
  [i \in 1..Len(builds) |-> [type |-> builds[i].type, parts |-> builds[i].parts]]

(***************************************************************************)
(* buildTree and buildModuleDeclarations.                                  *)
(***************************************************************************)
FindChild(currentTree, part) ==
  LET found == {i \in 1..Len(currentTree) : currentTree[i].name = part}
  IN IF found = {} THEN 0 ELSE CHOOSE i \in found : \A j \in found : i <= j

RECURSIVE buildTree(_, _, _)
buildTree(currentTree, baseParts, type) ==
  LET part == Head(baseParts)
      leftParts == Tail(baseParts)
      Added(tree) ==
        LET at == FindChild(tree, part)
            child == tree[at]
        IN IF Len(leftParts) > 1
           THEN [tree EXCEPT ![at] =
                   [child EXCEPT !.childs = buildTree(child.childs, leftParts, type)]]
           ELSE [tree EXCEPT ![at] = [child EXCEPT !.types = Append(child.types, type)]]
      Found(current) ==
        The({Added(once) : once \in
              {IF FindChild(current, part) = 0
               THEN Append(current, [name |-> part, childs |-> <<>>, types |-> <<>>])
               ELSE current}})
  IN The({Found(once) : once \in {currentTree}})

\* sideTypes.forEach(({ type, parts }) => buildTree(packageTree, parts, type));
\* each call works on the tree the previous one left
RECURSIVE BuildAllTrees(_, _)
BuildAllTrees(currentTree, pairs) ==
  IF pairs = <<>> THEN currentTree
  ELSE CHOOSE tree \in {BuildAllTrees(next, Tail(pairs)) :
                          next \in {buildTree(currentTree, Head(pairs).parts,
                                              Head(pairs).type)}} : TRUE

RECURSIVE buildModuleDeclarations(_, _)
buildModuleDeclarations(currentTree, level) ==
  [i \in 1..Len(currentTree) |->
     [kind |-> "module",
      modifier |-> IF level = 0 THEN "declare" ELSE "export",
      name |-> buildIdentifier(currentTree[i].name),
      body |-> currentTree[i].types
                 \o buildModuleDeclarations(currentTree[i].childs, level + 1)]]

(***************************************************************************)
(* generateOpenAPITypes: the translation of the operations.                *)
(***************************************************************************)
baseName == "API"

\* the reference string '#/' + path.join('/')
RefTo(path) ==
  [i \in 1..(2 * Len(path) + 1) |->
     IF i = 1 THEN "#" ELSE IF i % 2 = 0 THEN "/" ELSE path[(i - 1) \div 2]]

IsRef(object) == Has(object, "$ref") /\ object["$ref"] # <<>>

\* ref ? await resolve(schema, splitRef(ref)) : object
Dereference(schema, object) ==
  IF IsRef(object) THEN resolve(schema, splitRef(object["$ref"]))
  ELSE [threw |-> FALSE, value |-> object]

\* Object.keys(content).filter((t) => 'schema' in content[t]).map((t) => content[t].schema)
HasSchema(entry) == Has(entry.media, "schema")
ContentSchemas(content) ==
  LET kept == SelectSeq(content, HasSchema)
  IN [i \in 1..Len(kept) |-> kept[i].media.schema]

\* object[p1] = object[p1] || {}; ...; object[p1]...[pn] = value
RECURSIVE Store(_, _, _)
Store(object, path, value) ==
  LET Put(o) ==
        IF Len(path) = 1 THEN (path[1] :> value) @@ o
        ELSE (path[1] :> Store(IF Has(o, path[1]) THEN o[path[1]] ELSE <<>>,
                               Tail(path), value)) @@ o
  IN The({Put(once) : once \in {object}})

RECURSIVE StoreAll(_, _)
StoreAll(object, stores) ==
  LET Rest(o) == StoreAll(o, Tail(stores))
  IN IF stores = <<>> THEN object
     ELSE The({Rest(once) : once \in
                {Store(object, Head(stores).path, Head(stores).value)}})

RequestBodyPath(operationId, index) ==
  <<"components", "schemas", "__api_request_bodies", operationId,
    "Body" \o ToString(index)>>

ResponsePath(operationId, code, index) ==
  <<"components", "schemas", "__api_responses", operationId,
    "Response" \o code, "Schema" \o ToString(index)>>

ParameterPath(parameterName) ==
  <<"components", "schemas", "__api_parameters", parameterName>>

\* what one async callback of an operation contributes: the errors it may
\* reject with, the microtask turns it awaits before its first push, its
\* entries of allInputs / allOutputs, its writes to the document, its
\* sideTypes and the references its translation registers
Contribution(errs, delay, inputs, outputs, stores, sides, refs) ==
  [errs |-> errs, delay |-> delay, inputs |-> inputs, outputs |-> outputs,
   stores |-> stores, sideTypes |-> sides, refs |-> refs]

Nothing(delay) == Contribution({}, delay, <<>>, <<>>, <<>>, <<>>, <<>>)
Rejected(e, delay) == Contribution({e}, delay, <<>>, <<>>, <<>>, <<>>, <<>>)

\* the order in which the callbacks of one Promise.all resume: fewer awaited
\* turns first, listed order among equals
ResumeOrder(callbacks) ==
  LET n == Len(callbacks)
      rank(i) == 1 + Cardinality({j \in 1..n :
                       \/ callbacks[j].delay < callbacks[i].delay
                       \/ callbacks[j].delay = callbacks[i].delay /\ j < i})
  IN [k \in 1..n |-> CHOOSE i \in 1..n : rank(i) = k]

\* lines 86-149: the request body of one operation
RequestBodyTypes(schema, operation) ==
  LET Types(requestBody) ==
        LET required == Has(requestBody.value, "required") /\ requestBody.value.required
            Paths(requestBodySchemas) ==
              [i \in 1..Len(requestBodySchemas) |->
                 RequestBodyPath(operation.operationId, i - 1)]
            Declared(requestBodySchemas) ==
              LET paths == Paths(requestBodySchemas)
                  Pushed(built) ==
                    Contribution(
                      built.errs, 0,
                      <<[name |-> "body", path |-> <<"Body">>, required |-> required]>>,
                      <<>>,
                      [i \in 1..Len(paths) |->
                         [path |-> paths[i], value |-> requestBodySchemas[i]]],
                      <<[type |-> built.type,
                         parts |-> <<baseName, operation.operationId, "Body">>]>>,
                      built.refs)
              IN IF requestBodySchemas = <<>> THEN Nothing(0)
                 ELSE The({Pushed(once) : once \in
                            {generateTypeDeclaration(
                               FALSE,
                               [oneOf |-> [i \in 1..Len(paths) |->
                                             RefSchema(RefTo(paths[i]))]],
                               "Body")}})
        IN IF requestBody.threw THEN Rejected("TypeError", 0)
           ELSE IF IsUndefined(requestBody.value) THEN Nothing(0)
           ELSE IF ~Has(requestBody.value, "content") THEN Rejected("TypeError", 0)
           ELSE The({Declared(once) : once \in
                      {ContentSchemas(requestBody.value.content)}})
  IN IF ~Has(operation, "requestBody") THEN Nothing(0)
     ELSE The({Types(once) : once \in {Dereference(schema, operation.requestBody)}})

\* lines 186-214: the headers of one response, resolved and filtered
HeaderHasSchema(entry) == Has(entry.header, "schema")
HeadersSchemas(schema, response) ==
  LET listed == response.headers
      Kept(resolved) ==
        LET threw == \E i \in 1..Len(listed) :
                       resolved[i].threw \/ IsUndefined(resolved[i].value)
            Named(kept) ==
              [i \in 1..Len(kept) |->
                 [name |-> kept[i].name,
                  schema |-> kept[i].header.schema,
                  required |-> Has(kept[i].header, "required")
                                 /\ kept[i].header.required]]
        IN [errs |-> IF threw THEN {"TypeError"} ELSE {},
            delay |-> IF listed = <<>> THEN 1
                      ELSE IF \E i \in 1..Len(listed) : IsRef(listed[i].header) THEN 3
                      ELSE 2,
            headers |-> IF threw THEN <<>>
                        ELSE The({Named(once) : once \in
                                   {SelectSeq([i \in 1..Len(listed) |->
                                                 [name |-> listed[i].name,
                                                  header |-> resolved[i].value]],
                                              HeaderHasSchema)}})]
  IN IF ~Has(response, "headers") THEN [errs |-> {}, delay |-> 0, headers |-> <<>>]
     ELSE The({Kept(once) : once \in
                {[i \in 1..Len(listed) |-> Dereference(schema, listed[i].header)]}})

\* lines 157-277: the callback of one response code
ResponseTypes(schema, operation, code, object) ==
  LET waited == IF IsRef(object) THEN 1 ELSE 0
      Types(response) ==
        LET Declared(responseSchemas) ==
              LET paths == [i \in 1..Len(responseSchemas) |->
                              ResponsePath(operation.operationId, code, i - 1)]
                  Pushed(built) ==
                    Contribution(
                      built.declaration.errs, waited + built.headers.delay,
                      <<>>,
                      <<[status |-> code, path |-> <<"Responses", "$" \o code>>,
                         headersSchemas |-> built.headers.headers]>>,
                      [i \in 1..Len(paths) |->
                         [path |-> paths[i], value |-> responseSchemas[i]]],
                      <<[type |-> built.declaration.type,
                         parts |-> <<baseName, operation.operationId, "Responses",
                                     "$" \o code>>]>>,
                      built.declaration.refs)
                  Headed(headers) ==
                    IF headers.errs # {}
                    THEN Rejected("TypeError", waited + headers.delay)
                    ELSE The({Pushed(once) : once \in
                               {[headers |-> headers,
                                 declaration |->
                                   generateTypeDeclaration(
                                     FALSE,
                                     [oneOf |-> [i \in 1..Len(paths) |->
                                                   RefSchema(RefTo(paths[i]))]],
                                     "$" \o code)]}})
              IN IF responseSchemas = <<>> THEN Nothing(waited)
                 ELSE The({Headed(once) : once \in
                            {HeadersSchemas(schema, response.value)}})
        IN IF response.threw THEN Rejected("TypeError", waited)
           ELSE The({Declared(once) : once \in
                      {IF ~IsUndefined(response.value) /\ Has(response.value, "content")
                       THEN ContentSchemas(response.value.content) ELSE <<>>}})
  IN The({Types(once) : once \in {Dereference(schema, object)}})

\* lines 284-345: the callback of one parameter
ParameterTypes(schema, operation, parameter) ==
  LET waited == IF IsRef(parameter) THEN 1 ELSE 0
      Types(resolvedParameter) ==
        LET resolved == resolvedParameter.value
            input == [name |-> resolved.name,
                      path |-> <<"Parameters", resolved.name>>,
                      required |-> Has(resolved, "required") /\ resolved.required]
            parts == <<baseName, operation.operationId, "Parameters", resolved.name>>
            parameterName == splitRef(parameter["$ref"])[Len(splitRef(parameter["$ref"]))]
            Direct(built) ==
              Contribution(built.errs, waited, <<input>>, <<>>, <<>>,
                           <<[type |-> built.type, parts |-> parts]>>, built.refs)
            Scratch(built) ==
              Contribution(built.errs, waited, <<input>>, <<>>,
                           <<[path |-> ParameterPath(parameterName),
                              value |-> resolved.schema]>>,
                           <<[type |-> built.type, parts |-> parts]>>,
                           built.refs)
        IN IF resolvedParameter.threw \/ IsUndefined(resolvedParameter.value)
           THEN Rejected("TypeError", waited)
           ELSE IF ~Has(resolved, "schema") THEN Rejected("TypeError", waited)
           ELSE IF IsRef(resolved.schema) \/ ~IsRef(parameter)
           THEN The({Direct(once) : once \in
                      {generateTypeDeclaration(FALSE, resolved.schema, resolved.name)}})
           ELSE The({Scratch(once) : once \in
                      {generateTypeDeclaration(
                         FALSE, RefSchema(RefTo(ParameterPath(parameterName))),
                         resolved.name)}})
  IN The({Types(once) : once \in {Dereference(schema, parameter)}})

\* lines 348-366: the Input declaration of one operation
InputType(allInputs) ==
  [kind |-> "typeAlias", modifier |-> "export", name |-> "Input",
   type |-> TypeLiteral([i \in 1..Len(allInputs) |->
              PropertySignature(TRUE, camelCase(allInputs[i].name),
                                ~allInputs[i].required,
                                buildTypeReference(allInputs[i].path))])]

\* lines 402-441: the schema of the headers object of one Output variant
HeadersObject(headersSchemas) ==
  LET IsRequired(h) == h.required
      required == SelectSeq(headersSchemas, IsRequired)
  IN [type |-> Type("object"),
      required |-> [i \in 1..Len(required) |-> camelCase(required[i].name)],
      properties |-> [i \in 1..Len(headersSchemas) |->
                        [name |-> camelCase(headersSchemas[i].name),
                         schema |-> headersSchemas[i].schema]],
      patternProperties |->
        <<[name |-> "/a-z0-9/",
           schema |-> [oneOf |-> <<[type |-> Type("string")],
                                   [type |-> Type("array"),
                                    items |-> Item([type |-> Type("string")])]>>]]>>]

\* lines 375-400: the type of the status field of one Output variant
StatusTypes(status) ==
  IF status = "default" THEN schemaToTypes([type |-> Type("number")])
  ELSE schemaToTypes([const |-> [t |-> "number", v |-> parseInt(status)]])

\* an Output declaration that ignores the collected responses
OutputTypeAny(allOutputs) ==
  [errs |-> {}, refs |-> <<>>,
   type |-> [kind |-> "typeAlias", modifier |-> "export", name |-> "Output",
             type |-> Keyword("any")]]

\* lines 368-461: the Output declaration of one operation, with the errors
\* and the references of the headers it translates
OutputType(allOutputs) ==
  LET Declared(headers) ==
        LET variant(i) ==
              TypeLiteral(
                <<PropertySignature(TRUE, "status", FALSE,
                                    StatusTypes(allOutputs[i].status).types[1]),
                  PropertySignature(TRUE, "headers",
                                    ~\E j \in 1..Len(allOutputs[i].headersSchemas) :
                                        allOutputs[i].headersSchemas[j].required,
                                    headers[i].types[1]),
                  PropertySignature(TRUE, "body", FALSE,
                                    buildTypeReference(allOutputs[i].path))>>)
        IN [errs |-> ErrsOf(headers),
            refs |-> RefsOf(headers),
            type |-> IF ErrsOf(headers) # {} THEN NoDeclaration
                     ELSE [kind |-> "typeAlias", modifier |-> "export", name |-> "Output",
                           type |-> IF allOutputs # <<>>
                                    THEN UnionType([i \in 1..Len(allOutputs) |->
                                                      variant(i)])
                                    ELSE Keyword("any")]]
  IN The({Declared(once) : once \in
           {[i \in 1..Len(allOutputs) |->
               schemaToTypes(HeadersObject(allOutputs[i].headersSchemas))]}})

\* the contributions of the callbacks of one Promise.all, put together: the
\* document holds the writes of every callback that did not reject; settled
\* is the order in which the callbacks reach the push of their declaration
Gathered(schema, callbacks, settled) ==
  LET IsFulfilled(c) == c.errs = {}
      Pushed(resumed) ==
        [errs |-> ErrsOf(callbacks),
         schema |-> StoreAll(schema, Flatten([i \in 1..Len(resumed) |->
                                                IF IsFulfilled(resumed[i])
                                                THEN resumed[i].stores ELSE <<>>])),
         inputs |-> Flatten([i \in 1..Len(resumed) |-> resumed[i].inputs]),
         outputs |-> Flatten([i \in 1..Len(resumed) |-> resumed[i].outputs]),
         sideTypes |-> Flatten([i \in 1..Len(settled) |-> callbacks[settled[i]].sideTypes]),
         refs |-> Flatten([i \in 1..Len(settled) |-> callbacks[settled[i]].refs])]
      Resumed(order) == The({Pushed(once) : once \in
                              {[k \in 1..Len(callbacks) |-> callbacks[order[k]]]}})
  IN The({Resumed(once) : once \in {ResumeOrder(callbacks)}})

\* the orders in which n concurrent callbacks may reach their push; the
\* turns generateTypeDeclaration takes depend on the shape of each schema
Orders(n) == {order \in [1..n -> 1..n] : \A i, j \in 1..n : order[i] = order[j] => i = j}

\* Object.keys(schema.paths) and, for each path, Object.keys(schema.paths[path])
Operations(document) ==
  Flatten([i \in 1..Len(document.paths) |->
             [j \in 1..Len(document.paths[i].methods) |->
                document.paths[i].methods[j].operation]])

ResponsesOf(operation) ==
  IF Has(operation, "responses") THEN operation.responses ELSE <<>>

ParametersOf(operation) ==
  IF Has(operation, "parameters") THEN operation.parameters ELSE <<>>

(***************************************************************************)
(* The documents explored.                                                 *)
(***************************************************************************)
True == [jsBoolean |-> TRUE]
False == [jsBoolean |-> FALSE]
Untyped == [title |-> "Limit"]
Number == [type |-> Type("number")]
NumberOrString == [type |-> TypeList(<<"number", "string">>)]

SingleTags == {"any", "boolean", "integer", "number", "string", "object", "null", "foo"}
ListTags == {"number", "string", "null", "object", "foo"}
TypeValues == {Type(t) : t \in SingleTags}
                \cup {TypeList(ts) : ts \in SeqsUpTo(ListTags, MaxTags)}
Values == {JsOne, JsHop, JsTrue, JsNull, JsObject}
PropertyNames == {"p", "q", "r"}
RequiredValues == {<<>>, <<"p">>, <<"q">>, <<"q", "p">>, <<"r", "z">>}

BranchSchemas ==
  {True, False, RefSchema(RefA), RefSchema(RefB), RefSchema(RefA2), Number,
   NumberOrString, [type |-> TypeList(<<"string", "null">>)], Untyped,
   [enum |-> <<>>]}

PropertySchemas ==
  {True, RefSchema(RefA), Number, NumberOrString,
   [type |-> Type("number"), readOnly |-> TRUE],
   [type |-> Type("string"), readOnly |-> FALSE]}

ItemSchemas4 == {True, Number, RefSchema(RefB), NumberOrString}

Properties ==
  {ps \in SeqsUpTo([name : PropertyNames, schema : PropertySchemas], MaxProps) :
     \A i, j \in 1..Len(ps) : ps[i].name = ps[j].name => i = j}

TypedRoots == {[type |-> t] : t \in TypeValues}

ObjectRoots ==
  {[type |-> t, properties |-> ps] @@ req :
     t \in {Type("object"), TypeList(<<"object", "null">>)},
     ps \in Properties,
     req \in {<<>>} \cup {[required |-> r] : r \in RequiredValues}}
  \cup {[type |-> Type("object")] @@ req :
          req \in {<<>>} \cup {[required |-> r] : r \in RequiredValues}}

\* object schemas with pattern properties and additionalProperties
PatternNames == {"^a", "^b"}
PatternSchemas ==
  {[type |-> Type("string")], [type |-> Type("string"), readOnly |-> TRUE],
   [type |-> Type("number"), readOnly |-> TRUE], NumberOrString}

Patterns ==
  {ps \in SeqsUpTo([name : PatternNames, schema : PatternSchemas], MaxProps) :
     \A i, j \in 1..Len(ps) : ps[i].name = ps[j].name => i = j}

IndexRoots ==
  {[type |-> t] @@ pat @@ add @@ req @@ props :
     t \in {Type("object"), TypeList(<<"object", "null">>)},
     pat \in {<<>>} \cup {[patternProperties |-> ps] : ps \in Patterns},
     add \in {<<>>} \cup {[additionalProperties |-> a] : a \in {True, False, Number}},
     req \in {<<>>, [required |-> <<"^a">>], [required |-> <<"^a", "^b">>]},
     props \in {<<>>, [properties |-> <<[name |-> "p", schema |-> Number]>>]}}

ArrayRoots ==
  {[type |-> t] @@ it @@ bounds :
     t \in {Type("array"), TypeList(<<"array", "null">>)},
     it \in {<<>>} \cup {[items |-> Item(s)] : s \in ItemSchemas4}
              \cup {[items |-> ItemList(ss)] : ss \in SeqsUpTo(ItemSchemas4, 2)},
     bounds \in {<<>>, [minItems |-> 5, maxItems |-> 3],
                 [minItems |-> 5, maxItems |-> 5], [minItems |-> 5]}}

CombinatorRoots ==
  {k :> bs : k \in {"anyOf", "allOf", "oneOf"},
             bs \in SeqsUpTo(BranchSchemas, MaxBranches)}

ConstRoots == {[const |-> v] : v \in Values}
EnumRoots == {[enum |-> vs] : vs \in SeqsUpTo(Values, MaxEnum)}
RefRoots == {RefSchema(r) : r \in {RefA, RefA2, RefB, RefC, RefRoot, RefEmpty}}

\* schemas holding several of the keywords schemaToTypes dispatches on
MixedRoots ==
  {r @@ c @@ e @@ t @@ any @@ all @@ one :
     r \in {<<>>, RefSchema(RefA), RefSchema(RefEmpty)},
     c \in {<<>>, [const |-> JsOne]},
     e \in {<<>>, [enum |-> <<JsOne, JsNull>>], [enum |-> <<JsObject>>]},
     t \in {<<>>, [type |-> Type("number")], [type |-> Type("foo")]},
     any \in {<<>>, [anyOf |-> <<True>>]},
     all \in {<<>>, [allOf |-> <<RefSchema(RefB), Number>>]},
     one \in {<<>>, [oneOf |-> <<False>>]}} \ {<<>>}

Definitions == [definitions |-> [A |-> Number, B |-> RefSchema(RefA)]]

BuilderDocuments ==
  {True, False, Untyped @@ Definitions}
  \cup {root @@ Definitions :
          root \in TypedRoots \cup ObjectRoots \cup IndexRoots \cup ArrayRoots
                     \cup CombinatorRoots \cup ConstRoots \cup EnumRoots
                     \cup RefRoots \cup MixedRoots}

\* documents that vary the reference graph
GraphRoots ==
  {RefSchema(RefA), RefSchema(RefB), RefSchema(RefC), RefSchema(RefRoot),
   [anyOf |-> <<RefSchema(RefA), RefSchema(RefA2)>>],
   [type |-> Type("object"),
    properties |-> <<[name |-> "p", schema |-> RefSchema(RefA)],
                     [name |-> "q", schema |-> RefSchema(RefB)]>>],
   Number,
   [type |-> Type("number"), anyOf |-> <<RefSchema(RefB)>>]}

GraphSchemas ==
  {Number, False, Untyped, [type |-> Type("foo")], [type |-> Type("array")],
   RefSchema(RefA), RefSchema(RefB), RefSchema(RefA2), RefSchema(RefC),
   [anyOf |-> <<RefSchema(RefA), RefSchema(RefB)>>],
   [type |-> Type("object"),
    properties |-> <<[name |-> "p", schema |-> RefSchema(RefB)]>>],
   [type |-> Type("number"), oneOf |-> <<RefSchema(RefB)>>]}

GraphDocuments ==
  {root @@ [definitions |-> [A |-> a, B |-> b]] :
     root \in GraphRoots, a \in GraphSchemas, b \in GraphSchemas}

\* documents with a schema under a top-level key, referred to by a path of
\* one segment
TopDocuments ==
  {root @@ [A |-> a] @@ Definitions :
     root \in {RefSchema(RefTop), [anyOf |-> <<RefSchema(RefB), RefSchema(RefTop)>>]},
     a \in {Number, RefSchema(RefA), RefSchema(RefTop), [type |-> Type("foo")]}}

Documents == BuilderDocuments \cup GraphDocuments \cup TopDocuments

\* OpenAPI documents: one or two operations over the same components
RefComponentA == RefTo(<<"components", "schemas", "A">>)
RefComponentB == RefTo(<<"components", "schemas", "B">>)
RefComponentBad == RefTo(<<"components", "schemas", "Bad">>)
BadType == [type |-> Type("foo")]

JsonContent(s) == <<[name |-> "application/json", media |-> [schema |-> s]]>>

Components ==
  [schemas |-> [A |-> Number, B |-> RefSchema(RefComponentA), Bad |-> BadType],
   requestBodies |->
     [R |-> [content |-> JsonContent(RefSchema(RefComponentB)), required |-> TRUE]],
   responses |->
     [Ok |-> [content |-> JsonContent(Number),
              headers |-> <<[name |-> "X-Rate",
                             header |-> [schema |-> Number, required |-> TRUE]]>>]],
   headers |-> [Total |-> [schema |-> RefSchema(RefComponentA)]],
   parameters |-> [limit |-> [name |-> "limit", schema |-> Number, required |-> TRUE]],
   others |-> [limit |-> [name |-> "max", schema |-> NumberOrString]]]

RequestBodyValues ==
  {<<>>,
   [requestBody |-> [content |-> JsonContent(Number)]],
   [requestBody |->
      [content |-> <<[name |-> "application/json",
                      media |-> [schema |-> RefSchema(RefComponentA)]],
                     [name |-> "text/plain", media |-> [example |-> "hop"]],
                     [name |-> "application/xml",
                      media |-> [schema |-> NumberOrString]]>>,
       required |-> TRUE]],
   [requestBody |-> RefSchema(RefTo(<<"components", "requestBodies", "R">>))],
   [requestBody |-> RefSchema(RefTo(<<"components", "requestBodies", "Missing">>))],
   [requestBody |-> RefSchema(RefTo(<<"missing", "requestBodies", "R">>))],
   [requestBody |-> [required |-> TRUE]]}

\* the responses of an operation, in the order of Object.keys: the codes
\* that are integers in ascending order, then "default"
ResponsesValues ==
  {<<>>,
   [responses |-> <<[code |-> "200", response |-> [content |-> JsonContent(Number)]]>>],
   [responses |->
      <<[code |-> "200",
         response |-> RefSchema(RefTo(<<"components", "responses", "Ok">>))],
        [code |-> "404",
         response |-> [content |-> JsonContent(RefSchema(RefComponentB))]]>>],
   [responses |->
      <<[code |-> "200",
         response |-> [content |-> JsonContent(RefSchema(RefComponentBad))]]>>],
   [responses |->
      <<[code |-> "200",
         response |->
           [content |-> JsonContent(Number),
            headers |-> <<[name |-> "X-Total",
                           header |-> RefSchema(RefTo(<<"components", "headers",
                                                        "Total">>))]>>]],
        [code |-> "default",
         response |-> [content |-> JsonContent(NumberOrString)]]>>],
   [responses |->
      <<[code |-> "200",
         response |->
           [content |-> JsonContent(Number),
            headers |-> <<[name |-> "X-Rate", header |-> [schema |-> BadType]]>>]]>>],
   [responses |->
      <<[code |-> "200",
         response |->
           [content |-> JsonContent(Number),
            headers |-> <<[name |-> "X-Rate",
                           header |-> RefSchema(RefTo(<<"components", "headers",
                                                        "Missing">>))]>>]]>>],
   [responses |-> <<[code |-> "204", response |-> [description |-> "empty"]]>>],
   [responses |->
      <<[code |-> "200", response |-> [content |-> JsonContent(Number)]],
        [code |-> "202",
         response |-> [content |-> <<[name |-> "text/plain",
                                      media |-> [example |-> "hop"]]>>]]>>]}

ParametersValues ==
  {<<>>,
   [parameters |-> <<[name |-> "limit", schema |-> Number, required |-> TRUE]>>],
   [parameters |->
      <<RefSchema(RefTo(<<"components", "parameters", "limit">>)),
        [name |-> "cursor", schema |-> RefSchema(RefComponentA)]>>],
   [parameters |->
      <<RefSchema(RefTo(<<"components", "parameters", "limit">>)),
        RefSchema(RefTo(<<"components", "others", "limit">>))>>],
   [parameters |-> <<[name |-> "limit", schema |-> BadType]>>],
   [parameters |-> <<RefSchema(RefTo(<<"components", "parameters", "Missing">>))>>]}

OperationValues(operationId) ==
  {[operationId |-> operationId] @@ body @@ responses @@ parameters :
     body \in RequestBodyValues,
     responses \in ResponsesValues,
     parameters \in ParametersValues}

\* operations for the documents that hold two of them
SecondOperations(operationId) ==
  {[operationId |-> operationId] @@ body @@ parameters :
     body \in {<<>>, [requestBody |-> [content |-> JsonContent(NumberOrString)]]},
     parameters \in {<<>>,
                     [parameters |->
                        <<RefSchema(RefTo(<<"components", "others", "limit">>))>>]}}

OneMethod(method, operation) == <<[method |-> method, operation |-> operation]>>

\* the third argument of the calls of the tests of lines 937-949: none, or
\* one with filterStatuses, the codes written as parseInt writes them
OptionsValues == {Undefined, [filterStatuses |-> <<"200">>]}

OpenAPIDocuments ==
  {[paths |-> <<[path |-> "/ping", methods |-> OneMethod("get", operation)]>>,
    components |-> Components] : operation \in OperationValues("getPing")}
  \cup {[paths |-> <<[path |-> "/ping",
                      methods |-> OneMethod("get", first) \o OneMethod("put", second)]>>,
         components |-> Components] :
          first \in SecondOperations("getPing"),
          second \in SecondOperations("getPing") \cup SecondOperations("putPing")}
  \cup {[paths |-> <<[path |-> "/ping", methods |-> OneMethod("get", first)],
                     [path |-> "/pong", methods |-> <<>>]>>] :
          first \in SecondOperations("getPing")}
  \cup {[paths |-> <<[path |-> "/pong", methods |-> <<>>]>>]}

(***************************************************************************)
(* generateJSONSchemaTypes as a state machine.                             *)
(***************************************************************************)
\* entry names the entry point called and operations the operations the
\* adapter has still to translate; operationTypes and rootRefs record the
\* number of sideTypes and the keys of seenRefs when the loop starts; options
\* is the third argument of the call of generateOpenAPITypes, which has no
\* parameter for it
VARIABLES schema, pc, seenRefs, builtRefs, refsToBuild, sideTypes, mainType,
          types, packageTree, result, error, passes, entry, operations,
          allInputs, allOutputs, operationTypes, rootRefs, options

vars == <<schema, pc, seenRefs, builtRefs, refsToBuild, sideTypes, mainType,
          types, packageTree, result, error, passes, entry, operations,
          allInputs, allOutputs, operationTypes, rootRefs, options>>

Init ==
  /\ schema = Undefined
  /\ pc = "start"
  /\ seenRefs = <<>>
  /\ builtRefs = {}
  /\ refsToBuild = <<>>
  /\ sideTypes = <<>>
  /\ mainType = NoDeclaration
  /\ types = <<>>
  /\ packageTree = <<>>
  /\ result = <<>>
  /\ error = "none"
  /\ passes = 0
  /\ entry = "none"
  /\ operations = <<>>
  /\ allInputs = <<>>
  /\ allOutputs = <<>>
  /\ operationTypes = 0
  /\ rootRefs = <<>>
  /\ options = Undefined

\* generateJSONSchemaTypes, lines 521-527: the root declaration, then
\* refsToBuild = Object.keys(seenRefs)
GenerateMainType(document) ==
  /\ pc = "start"
  /\ schema' = document
  /\ entry' = "json"
  /\ LET main == generateTypeDeclaration(TRUE, document, "main")
     IN \/ /\ main.errs = {}
           /\ mainType' = main.type
           /\ types' = main.types
           /\ seenRefs' = RegisterRefs(seenRefs, main.refs)
           /\ refsToBuild' = RegisterRefs(seenRefs, main.refs)
           /\ rootRefs' = RegisterRefs(seenRefs, main.refs)
           /\ pc' = "loop"
           /\ UNCHANGED error
        \/ /\ \E e \in main.errs : error' = e
           /\ pc' = "failed"
           /\ UNCHANGED <<mainType, types, seenRefs, refsToBuild, rootRefs>>
  /\ UNCHANGED <<builtRefs, sideTypes, packageTree, result, passes, operations,
                 allInputs, allOutputs, operationTypes, options>>

\* generateOpenAPITypes, lines 48-64: the call with a document; the two
\* reduces take the operations one after the other. The signature has the
\* parameters schema and baseName only: a third argument is received and
\* never read
GenerateOpenAPITypes(document, given) ==
  /\ pc = "start"
  /\ schema' = document
  /\ options' = given
  /\ entry' = "openapi"
  /\ operations' = Operations(document)
  /\ pc' = IF Operations(document) = <<>> THEN "loop" ELSE "requestBody"
  /\ UNCHANGED <<seenRefs, builtRefs, refsToBuild, sideTypes, mainType, types,
                 packageTree, result, error, passes, allInputs, allOutputs,
                 operationTypes, rootRefs>>

\* lines 66-149: a new operation, its request body
BuildRequestBody ==
  /\ pc = "requestBody"
  /\ \E body \in {RequestBodyTypes(schema, Head(operations))} :
       \/ /\ body.errs = {}
          /\ schema' = StoreAll(schema, body.stores)
          /\ allInputs' = body.inputs
          /\ allOutputs' = <<>>
          /\ sideTypes' = sideTypes \o body.sideTypes
          /\ seenRefs' = RegisterRefs(seenRefs, body.refs)
          /\ pc' = "responses"
          /\ UNCHANGED error
       \/ /\ \E e \in body.errs : error' = e
          /\ pc' = "failed"
          /\ UNCHANGED <<schema, allInputs, allOutputs, sideTypes, seenRefs>>
  /\ UNCHANGED <<builtRefs, refsToBuild, mainType, types, packageTree, result,
                 passes, entry, operations, operationTypes, rootRefs, options>>

\* lines 151-280: the Promise.all over the response codes
BuildResponses ==
  /\ pc = "responses"
  /\ \E operation \in {Head(operations)} :
     \E callbacks \in {[i \in 1..Len(ResponsesOf(operation)) |->
                         ResponseTypes(schema, operation,
                                       ResponsesOf(operation)[i].code,
                                       ResponsesOf(operation)[i].response)]} :
     \E gathered \in {Gathered(schema, callbacks, ResumeOrder(callbacks))} :
       /\ schema' = gathered.schema
       /\ \/ /\ gathered.errs = {}
             /\ allOutputs' = gathered.outputs
             /\ sideTypes' = sideTypes \o gathered.sideTypes
             /\ seenRefs' = RegisterRefs(seenRefs, gathered.refs)
             /\ pc' = "parameters"
             /\ UNCHANGED error
          \/ /\ \E e \in gathered.errs : error' = e
             /\ pc' = "failed"
             /\ UNCHANGED <<allOutputs, sideTypes, seenRefs>>
  /\ UNCHANGED <<builtRefs, refsToBuild, mainType, types, packageTree, result,
                 passes, entry, operations, allInputs, operationTypes,
                 rootRefs, options>>

\* lines 282-346: the Promise.all over the parameters
BuildParameters ==
  /\ pc = "parameters"
  /\ \E operation \in {Head(operations)} :
     \E callbacks \in {[i \in 1..Len(ParametersOf(operation)) |->
                         ParameterTypes(schema, operation, ParametersOf(operation)[i])]} :
     \E settled \in Orders(Len(callbacks)) :
     \E gathered \in {Gathered(schema, callbacks, settled)} :
       /\ schema' = gathered.schema
       /\ \/ /\ gathered.errs = {}
             /\ allInputs' = allInputs \o gathered.inputs
             /\ sideTypes' = sideTypes \o gathered.sideTypes
             /\ seenRefs' = RegisterRefs(seenRefs, gathered.refs)
             /\ pc' = "declare"
             /\ UNCHANGED error
          \/ /\ \E e \in gathered.errs : error' = e
             /\ pc' = "failed"
             /\ UNCHANGED <<allInputs, sideTypes, seenRefs>>
  /\ UNCHANGED <<builtRefs, refsToBuild, mainType, types, packageTree, result,
                 passes, entry, operations, allOutputs, operationTypes,
                 rootRefs, options>>

\* lines 348-463: the Input and Output declarations of the operation; after
\* the last operation, refsToBuild = Object.keys(seenRefs)
DeclareOperation ==
  /\ pc = "declare"
  /\ \E operation \in {Head(operations)} :
     \E output \in {OutputType(allOutputs)} :
     \E seen \in {RegisterRefs(seenRefs, output.refs)} :
     \E sides \in {sideTypes
                     \o <<[type |-> InputType(allInputs),
                           parts |-> <<baseName, operation.operationId, "Input">>],
                          [type |-> output.type,
                           parts |-> <<baseName, operation.operationId, "Output">>]>>} :
       \/ /\ output.errs = {}
          /\ sideTypes' = sides
          /\ seenRefs' = seen
          /\ operations' = Tail(operations)
          /\ IF Tail(operations) = <<>>
             THEN /\ pc' = "loop"
                  /\ refsToBuild' = seen
                  /\ operationTypes' = Len(sides)
                  /\ rootRefs' = seen
             ELSE /\ pc' = "requestBody"
                  /\ UNCHANGED <<refsToBuild, operationTypes, rootRefs>>
          /\ UNCHANGED error
       \/ /\ \E e \in output.errs : error' = e
          /\ pc' = "failed"
          /\ UNCHANGED <<sideTypes, seenRefs, operations, refsToBuild,
                         operationTypes, rootRefs>>
  /\ UNCHANGED <<schema, builtRefs, mainType, types, packageTree, result, passes,
                 entry, allInputs, allOutputs, options>>

\* one iteration of the do / while loop, the same code in both entry points;
\* builds, built and seen are the values the iteration computes once
RefsPass ==
  /\ pc = "loop"
  /\ passes < MaxPasses
  /\ \E builds \in {[i \in 1..Len(refsToBuild) |-> BuildRef(schema, refsToBuild[i])]} :
     \E built \in {MarkBuilt(builtRefs, refsToBuild)} :
     \E seen \in {RegisterRefs(seenRefs, RefsOf(builds))} :
        \/ /\ PassErrors(builds) = {}
           /\ builtRefs' = built
           /\ sideTypes' = sideTypes \o PassSideTypes(builds)
           /\ seenRefs' = seen
           /\ refsToBuild' = UnbuiltRefs(seen, built)
           /\ pc' = IF UnbuiltRefs(seen, built) # <<>> THEN "loop" ELSE "tree"
           /\ UNCHANGED error
        \/ /\ \E e \in PassErrors(builds) : error' = e
           /\ builtRefs' = built
           /\ pc' = "failed"
           /\ UNCHANGED <<sideTypes, seenRefs, refsToBuild>>
  /\ passes' = passes + 1
  /\ UNCHANGED <<schema, mainType, types, packageTree, result, entry, operations,
                 allInputs, allOutputs, operationTypes, rootRefs, options>>

\* generateJSONSchemaTypes, lines 529-550
BuildRefs == entry = "json" /\ RefsPass

\* generateOpenAPITypes, lines 465-488
BuildOperationsRefs == entry = "openapi" /\ RefsPass

\* generateJSONSchemaTypes, lines 552-561: the package tree and the returned
\* node array
BuildPackageTree ==
  /\ pc = "tree"
  /\ entry = "json"
  /\ \E tree \in {BuildAllTrees(<<>>, sideTypes)} :
       /\ packageTree' = tree
       /\ result' = <<mainType>> \o buildModuleDeclarations(tree, 0)
  /\ pc' = "done"
  /\ UNCHANGED <<schema, seenRefs, builtRefs, refsToBuild, sideTypes, mainType,
                 types, error, passes, entry, operations, allInputs, allOutputs,
                 operationTypes, rootRefs, options>>

\* generateOpenAPITypes, lines 490-496
BuildOperationsPackageTree ==
  /\ pc = "tree"
  /\ entry = "openapi"
  /\ \E tree \in {BuildAllTrees(<<>>, sideTypes)} :
       /\ packageTree' = tree
       /\ result' = buildModuleDeclarations(tree, 0)
  /\ pc' = "done"
  /\ UNCHANGED <<schema, seenRefs, builtRefs, refsToBuild, sideTypes, mainType,
                 types, error, passes, entry, operations, allInputs, allOutputs,
                 operationTypes, rootRefs, options>>

\* a caller passes a document to one of the entry points
Call == pc = "start" /\ \E document \in Documents : GenerateMainType(document)

CallOpenAPI ==
  /\ pc = "start"
  /\ \E document \in OpenAPIDocuments, given \in OptionsValues :
       GenerateOpenAPITypes(document, given)

\* the steps of a call that has started
Compile ==
  \/ BuildRequestBody
  \/ BuildResponses
  \/ BuildParameters
  \/ DeclareOperation
  \/ BuildRefs
  \/ BuildOperationsRefs
  \/ BuildPackageTree
  \/ BuildOperationsPackageTree

Next ==
  \/ Call
  \/ CallOpenAPI
  \/ Compile

Spec == Init /\ [][Next]_vars

\* the awaited promises of a call always settle: a step of a started call
\* that can run does; nothing makes a caller call
LiveSpec == Spec /\ WF_vars(Compile)

TypeOK ==
  /\ pc \in {"start", "requestBody", "responses", "parameters", "declare", "loop",
            "tree", "done", "failed"}
  /\ error \in {"none", "TypeError", "E_BAD_TYPE", "E_UNSUPPORTED_ENUM",
                "E_UNSUPPORTED_SCHEMA"}
  /\ passes <= MaxPasses
  /\ entry \in {"none", "json", "openapi"}

(***************************************************************************)
(* Properties.                                                             *)
(***************************************************************************)
Translated == mainType # NoDeclaration
LoopEnded == pc \in {"tree", "done"}

\* the loop never runs into the cap on its iterations
PassesBelowCap == pc = "loop" => passes < MaxPasses

\* the references met while translating one schema
MetRefs(s) == Range(schemaToTypes(s).refs)

RECURSIVE RefClosure(_, _)
RefClosure(document, refs) ==
  LET next == refs \cup UNION {MetRefs(resolve(document, splitRef(r)).value) : r \in refs}
  IN IF next = refs THEN refs ELSE RefClosure(document, next)

\* the references met while translating the root: the document itself, or
\* the schemas of the operations
RootRefs == IF entry = "json" THEN MetRefs(schema) ELSE Range(rootRefs)

ReachablePaths == {splitRef(r) : r \in RefClosure(schema, RootRefs)}

\* the declarations the loop has added to sideTypes
LoopTypes == SubSeq(sideTypes, operationTypes + 1, Len(sideTypes))
DeclaredPaths == {LoopTypes[i].parts : i \in 1..Len(LoopTypes)}

\* C1: when the reference loop has ended, a path has a declaration if and
\* only if it is reachable from the root schema through a chain of $refs met
\* during translation.
C1_DeclaredIffReachable == LoopEnded => DeclaredPaths = ReachablePaths

C1_Witness ==
  /\ pc = "done"
  /\ passes >= 2
  /\ DeclaredPaths = {<<"definitions", "A">>, <<"definitions", "B">>}

\* C2: the final declaration list holds exactly one declaration per reference
\* path, two reference strings denoting the same path when splitRef gives
\* them the same segments.
C2_OneDeclarationPerPath ==
  LoopEnded =>
    \A i, j \in 1..Len(LoopTypes) :
      LoopTypes[i].parts = LoopTypes[j].parts => i = j

\* C3: every compilation that has started terminates, by returning or by
\* failing, whatever the shape of the reference graph.
C3_Terminates == (pc # "start") ~> (pc \in {"done", "failed"})

C3_Witness ==
  /\ pc = "done"
  /\ Has(schema, "definitions")
  /\ schema.definitions.A = RefSchema(RefA)
  /\ schema.definitions.B = RefSchema(RefA)
  /\ RefA \in builtRefs
  /\ RefB \in builtRefs

RECURSIVE DeclarationsIn(_)
DeclarationsIn(nodes) ==
  IF nodes = <<>> THEN <<>>
  ELSE (IF Head(nodes).kind = "module"
        THEN DeclarationsIn(Head(nodes).body)
        ELSE <<Head(nodes)>>) \o DeclarationsIn(Tail(nodes))

\* the errors the translation of one operation may raise
OperationErrors(document, operation) ==
  LET responses == [i \in 1..Len(ResponsesOf(operation)) |->
                      ResponseTypes(document, operation,
                                    ResponsesOf(operation)[i].code,
                                    ResponsesOf(operation)[i].response)]
      parameters == [i \in 1..Len(ParametersOf(operation)) |->
                       ParameterTypes(document, operation, ParametersOf(operation)[i])]
      outputs == Gathered(document, responses, ResumeOrder(responses)).outputs
  IN RequestBodyTypes(document, operation).errs
       \cup ErrsOf(responses) \cup ErrsOf(parameters) \cup OutputType(outputs).errs

\* the errors the fragments visited from the root(s) and from the seen
\* references raise
VisitedErrors ==
  (IF entry = "json" THEN schemaToTypes(schema).errs
   ELSE UNION {OperationErrors(schema, Operations(schema)[i]) :
                 i \in 1..Len(Operations(schema))})
    \cup UNION {BuildRef(schema, seenRefs[i]).errs : i \in 1..Len(seenRefs)}

\* C4: a compilation either fails with an error raised by a visited fragment
\* and returns nothing, or no visited fragment raises and the returned tree
\* holds the root declaration(s) and the declaration of every resolved
\* reference.
C4_NoPartialSuccess ==
  /\ pc = "failed" =>
       /\ result = <<>>
       /\ packageTree = <<>>
       /\ error \in VisitedErrors
  /\ LoopEnded =>
       /\ error = "none"
       /\ VisitedErrors = {}
  /\ pc = "done" =>
       /\ Len(DeclarationsIn(result))
            = (IF entry = "json" THEN 1 ELSE 0) + operationTypes + Len(seenRefs)
       /\ entry = "json" => mainType \in Range(DeclarationsIn(result))
       /\ \A i \in 1..operationTypes :
            sideTypes[i].type \in Range(DeclarationsIn(result))
       /\ \A i \in 1..Len(seenRefs) :
            BuildRef(schema, seenRefs[i]).type \in Range(DeclarationsIn(result))

C4_Witness ==
  /\ pc = "failed"
  /\ Translated
  /\ passes = 2
  /\ error = "E_BAD_TYPE"

TypeStep == entry = "json" /\ ~IsBoolean(schema) /\ Dispatch(schema) = "type"

\* what a type tag stands for, before any NonNullable wrapping
IsBareTag(tag, node) ==
  CASE tag = "any" -> node = Keyword("any")
    [] tag = "boolean" -> node = Keyword("boolean")
    [] tag \in {"integer", "number"} -> node = Keyword("number")
    [] tag = "string" -> node = Keyword("string")
    [] tag = "object" -> node.kind = "typeLiteral"
    [] tag = "array" -> node.kind = "array" \/ node = Keyword("never")
    [] OTHER -> FALSE

\* C5: with "null" among the type tags every other tag's expression is
\* returned bare and "null" adds no expression; without "null" every tag's
\* expression is wrapped in NonNullable; the returned expressions are those
\* of the non-null tags, in order.
C5_Nullability ==
  (TypeStep /\ Translated) =>
    LET tags == SelectSeq(schema.type.tags, IsNotNullTag)
    IN /\ Len(types) = Len(tags)
       /\ \A i \in 1..Len(tags) :
            IF "null" \in Range(schema.type.tags)
            THEN IsBareTag(tags[i], types[i])
            ELSE types[i].kind = "NonNullable" /\ IsBareTag(tags[i], types[i].arg)

C5_Witness ==
  /\ TypeStep /\ Translated
  /\ "null" \in Range(schema.type.tags)
  /\ Len(types) = 2
  /\ types[1] # types[2]

EnumStep == entry = "json" /\ ~IsBoolean(schema) /\ Dispatch(schema) = "enum"

\* C6, as stated: one literal type per non-null enum value, and a null enum
\* member never produces a literal-null type.
C6_NullDropped ==
  (EnumStep /\ Translated) =>
    /\ Len(types) = Cardinality({i \in 1..Len(schema.enum) : schema.enum[i] # JsNull})
    /\ \A i \in 1..Len(types) : types[i] # Literal("null", "null")

LiteralOf(value) ==
  IF value = JsNull THEN Literal("null", "null")
  ELSE IF value.t = "number" THEN Literal("numeric", value.v)
  ELSE IF value.t = "string" THEN Literal("string", value.v)
  ELSE Literal(value.v, value.v)

\* C6, amended: for an enum whose values are all number/string/boolean/null
\* the builder returns one literal type per enum value, in order, a null
\* member producing the literal null type.
C6_OneLiteralPerValue ==
  (EnumStep /\ AllEnumValuesAreLiteral(schema.enum)) =>
    /\ Translated
    /\ Len(types) = Len(schema.enum)
    /\ \A i \in 1..Len(types) : types[i] = LiteralOf(schema.enum[i])

C6_Witness ==
  /\ EnumStep /\ Translated
  /\ schema.enum = <<JsHop, JsNull>>
  /\ Len(types) = 2

DispatchKeys == {"$ref", "const", "enum", "type", "anyOf", "allOf", "oneOf"}
CombinatorKeys == {"anyOf", "allOf", "oneOf"}
DispatchOrder == <<"$ref", "const", "enum", "type", "anyOf", "allOf", "oneOf">>

\* s without the dispatch keywords outside `keep`
KeepOnly(s, keep) == [k \in DOMAIN s \ (DispatchKeys \ keep) |-> s[k]]

\* the first of the dispatch keywords s holds, with its fellow combinators
FirstKeyword(s) ==
  LET at == {i \in 1..Len(DispatchOrder) : Has(s, DispatchOrder[i])}
      first == CHOOSE i \in at : \A j \in at : i <= j
  IN IF at = {} THEN {}
     ELSE IF DispatchOrder[first] \in CombinatorKeys THEN CombinatorKeys
     ELSE {DispatchOrder[first]}

\* the state after the root translation is the one `expected` describes
RootOutcomeIs(expected) ==
  IF expected.errs = {}
  THEN /\ Translated
       /\ types = expected.types
       /\ Range(expected.refs) \subseteq Range(seenRefs)
  ELSE /\ ~Translated
       /\ pc = "failed"
       /\ error \in expected.errs

\* C7: for a non-boolean schema the first of $ref, const, enum, type,
\* combinator that is present alone determines the result, the later keywords
\* being ignored: a schema with $ref yields exactly one qualified reference
\* and registers the ref, and a schema with enum and type but neither $ref nor
\* const yields literals only, none wrapped in NonNullable.
C7_FirstPresentWins ==
  (entry = "json" /\ ~IsBoolean(schema)) =>
    /\ RootOutcomeIs(schemaToTypes(KeepOnly(schema, FirstKeyword(schema))))
    /\ Has(schema, "$ref") =>
         /\ types = <<TypeReference([i \in 1..Len(splitRef(schema["$ref"])) |->
                                      buildIdentifier(splitRef(schema["$ref"])[i])])>>
         /\ schema["$ref"] \in Range(seenRefs)
    /\ (Translated /\ Has(schema, "enum") /\ Has(schema, "type")
          /\ ~Has(schema, "$ref") /\ ~Has(schema, "const")) =>
         \A i \in 1..Len(types) : types[i].kind = "literal"

\* the schema's only dispatch keyword is the combinator k
OnlyCombinator(s, k) == ~IsBoolean(s) /\ DOMAIN s \cap DispatchKeys = {k}

\* the member a branch contributes to the combined type
MemberOf(branch, node) ==
  LET ts == schemaToTypes(branch).types
  IN IF Len(ts) > 1 THEN node = UnionType(ts)
     ELSE Len(ts) = 1 => node = ts[1]

\* C8: a schema whose only recognized keyword is one combinator with N >= 2
\* branches builds to exactly one expression, an intersection of N members
\* for allOf and a union of N members for oneOf and anyOf, in branch order, a
\* branch with several expressions contributing their union.
C8_Combinators ==
  \A k \in CombinatorKeys :
    (OnlyCombinator(schema, k) /\ Translated /\ Len(schema[k]) >= 2) =>
      /\ Len(types) = 1
      /\ types[1].kind = IF k = "allOf" THEN "intersection" ELSE "union"
      /\ Len(types[1].types) = Len(schema[k])
      /\ \A i \in 1..Len(schema[k]) : MemberOf(schema[k][i], types[1].types[i])

C8_Witness ==
  /\ OnlyCombinator(schema, "allOf") /\ Translated
  /\ schema.allOf = <<NumberOrString, RefSchema(RefB)>>
  /\ types[1].kind = "intersection"
  /\ types[1].types[1].kind = "union"

\* C9: a combinator with exactly one branch yields that branch's expression
\* itself, not a union or intersection node around a single member.
C9_SingleBranchUnwrapped ==
  \A k \in CombinatorKeys :
    (OnlyCombinator(schema, k) /\ Translated /\ Len(schema[k]) = 1) =>
      /\ Len(types) = 1
      /\ MemberOf(schema[k][1], types[1])

IsProperty(element) == element.kind = "property"

\* C10: the object type built from `properties` has one field per property,
\* in property order; a field is non-optional iff its name is in `required`
\* and read-only iff its property schema has readOnly set.
C10_Fields ==
  (TypeStep /\ Translated /\ Has(schema, "properties")) =>
    LET tags == SelectSeq(schema.type.tags, IsNotNullTag)
        properties == schema.properties
        required == IF Has(schema, "required") THEN Range(schema.required) ELSE {}
    IN \A i \in 1..Len(tags) :
         tags[i] = "object" =>
           LET node == IF types[i].kind = "NonNullable" THEN types[i].arg ELSE types[i]
               fields == SelectSeq(node.members, IsProperty)
           IN /\ node.kind = "typeLiteral"
              /\ Len(fields) = Len(properties)
              /\ \A j \in 1..Len(properties) :
                   /\ fields[j].name = properties[j].name
                   /\ ~fields[j].optional <=> properties[j].name \in required
                   /\ fields[j].readonly <=>
                        (Has(properties[j].schema, "readOnly")
                           /\ properties[j].schema.readOnly)

C10_Witness ==
  /\ TypeStep /\ Translated
  /\ Has(schema, "properties") /\ Has(schema, "required")
  /\ Len(schema.properties) = 2
  /\ schema.properties[1].name = "q"
  /\ schema.properties[2].name = "r"
  /\ schema.required = <<"q", "p">>
  /\ schema.properties[2].schema = [type |-> Type("number"), readOnly |-> TRUE]
  /\ schema.properties[1].schema = RefSchema(RefA)

\* a type expression without its NonNullable wrapper
Unwrapped(node) == IF node.kind = "NonNullable" THEN node.arg ELSE node

\* the object types built for the root schema, one per "object" tag
ObjectNodes ==
  LET tags == SelectSeq(schema.type.tags, IsNotNullTag)
  IN {Unwrapped(types[i]) : i \in {j \in 1..Len(tags) : tags[j] = "object"}}

ObjectStep == TypeStep /\ Translated /\ "object" \in Range(schema.type.tags)

\* C11: in the object type built for an object schema, every name listed in
\* `required` that has no entry in `properties` is a non-optional field of
\* type unknown.
C11_RequiredWithoutProperty ==
  ObjectStep =>
    LET declared == IF Has(schema, "properties")
                    THEN {schema.properties[j].name : j \in 1..Len(schema.properties)}
                    ELSE {}
    IN \A node \in ObjectNodes :
         \A name \in Range(RequiredOf(schema)) \ declared :
           PropertySignature(FALSE, name, FALSE, Keyword("unknown"))
             \in Range(node.members)

IsIndex(element) == element.kind = "index"

\* the sources of the index signature of an object schema, in the order the
\* code merges them: its pattern properties, then additionalProperties
IndexedStep ==
  ObjectStep /\ (Has(schema, "patternProperties")
                   \/ (Has(schema, "additionalProperties")
                         /\ Truthy(schema.additionalProperties)))

PatternsOf(s) == IF Has(s, "patternProperties") THEN s.patternProperties ELSE <<>>
HasAdditional(s) == Has(s, "additionalProperties") /\ Truthy(s.additionalProperties)

\* C12: an object schema with patternProperties and/or a truthy
\* additionalProperties builds to an object type with exactly one index
\* signature, whose value type is a union with one member per pattern
\* property, in order, followed by `any` iff additionalProperties is truthy.
C12_OneIndexSignature ==
  IndexedStep =>
    \A node \in ObjectNodes :
      LET indexes == SelectSeq(node.members, IsIndex)
          patterns == PatternsOf(schema)
      IN /\ Len(indexes) = 1
         /\ indexes[1].type.kind = "union"
         /\ Len(indexes[1].type.types)
              = Len(patterns) + (IF HasAdditional(schema) THEN 1 ELSE 0)
         /\ \A i \in 1..Len(patterns) :
              MemberOf(patterns[i].schema, indexes[1].type.types[i])
         /\ HasAdditional(schema) =>
              indexes[1].type.types[Len(patterns) + 1] = Keyword("any")

C12_Witness ==
  /\ IndexedStep
  /\ Len(PatternsOf(schema)) = 2
  /\ PatternsOf(schema)[1].schema = NumberOrString
  /\ HasAdditional(schema)
  /\ schema.additionalProperties = Number
  /\ Has(schema, "properties")

\* C13: the index signature is read-only exactly when every contributing
\* source (each pattern property, and additionalProperties when truthy, which
\* is neither read-only nor required) is read-only, and required (no question
\* token) exactly when every contributing source is required.
C13_FlagsAreConjunctions ==
  IndexedStep =>
    \A node \in ObjectNodes :
      LET index == SelectSeq(node.members, IsIndex)[1]
          patterns == PatternsOf(schema)
      IN /\ index.readonly <=>
              (/\ ~HasAdditional(schema)
               /\ \A i \in 1..Len(patterns) : ReadOnlyOf(patterns[i].schema))
         /\ ~index.question <=>
              (/\ ~HasAdditional(schema)
               /\ \A i \in 1..Len(patterns) :
                    patterns[i].name \in Range(RequiredOf(schema)))

\* the array types built for the root schema, one per "array" tag
ArrayNodes ==
  LET tags == SelectSeq(schema.type.tags, IsNotNullTag)
  IN {Unwrapped(types[i]) : i \in {j \in 1..Len(tags) : tags[j] = "array"}}

\* the root is an array schema with items, all of which translate
ArrayStep ==
  /\ TypeStep /\ Translated
  /\ "array" \in Range(schema.type.tags)
  /\ Has(schema, "items")
  /\ \A i \in 1..Len(schema.items.schemas) :
       schemaToTypes(schema.items.schemas[i]).errs = {}

\* C14: an array schema whose items is a schema or a list of schemas builds to
\* never when minItems and maxItems are numbers with minItems > maxItems, and
\* otherwise to an array of the single item expression, or of the union of all
\* the item expressions, in order, when there are several.
C14_ArrayOfItems ==
  ArrayStep =>
    LET items == schema.items.schemas
        expressions == Flatten([i \in 1..Len(items) |-> schemaToTypes(items[i]).types])
    IN \A node \in ArrayNodes :
         IF Has(schema, "minItems") /\ Has(schema, "maxItems")
              /\ schema.minItems > schema.maxItems
         THEN node = Keyword("never")
         ELSE node = ArrayType(IF Len(expressions) > 1 THEN UnionType(expressions)
                               ELSE expressions[1])

\* the declaration sits under the namespaces named by all but the last of
\* `parts`, in order, and under no other
RECURSIVE DeclaredAt(_, _, _)
DeclaredAt(nodes, parts, type) ==
  IF Len(parts) <= 1 THEN type \in Range(nodes)
  ELSE \E i \in 1..Len(nodes) :
         /\ nodes[i].kind = "module"
         /\ nodes[i].name = buildIdentifier(Head(parts))
         /\ DeclaredAt(nodes[i].body, Tail(parts), type)

\* C15: in the returned tree every inserted path of length n has its
\* declaration under exactly n-1 nested namespaces, named by its first n-1
\* segments in order.
C15_NamespaceDepth ==
  pc = "done" =>
    \A i \in 1..Len(sideTypes) :
      DeclaredAt(result, sideTypes[i].parts, sideTypes[i].type)

\* C16, as stated: every declaration produced for a resolved reference path is
\* exported, and the only ambient declaration is the one of the document root
\* passed to generateJSONSchemaTypes.
C16_OnlyRootAmbient ==
  LoopEnded =>
    /\ \A i \in 1..Len(sideTypes) : sideTypes[i].type.modifier = "export"
    /\ entry = "json" => mainType.modifier = "declare"

\* C16, amended: a declaration produced for a resolved reference path is
\* exported when the path has two or more segments and ambient when it has
\* one; the declaration of the document root passed to
\* generateJSONSchemaTypes is ambient, and every declaration of an operation
\* is exported.
C16_AmbientIffOneSegment ==
  LoopEnded =>
    /\ \A i \in 1..Len(sideTypes) :
         sideTypes[i].type.modifier
           = IF Len(sideTypes[i].parts) = 1 THEN "declare" ELSE "export"
    /\ entry = "json" => mainType.modifier = "declare"

C16_Witness ==
  /\ pc = "done"
  /\ \E i, j \in 1..Len(sideTypes) :
       /\ sideTypes[i].parts = <<"A">>
       /\ sideTypes[i].type.modifier = "declare"
       /\ sideTypes[j].parts = <<"definitions", "B">>
       /\ sideTypes[j].type.modifier = "export"

\* the Output declarations of the operations of the document, once every
\* operation has been declared
OperationsDeclared == entry = "openapi" /\ pc \in {"loop", "tree", "done"}
OutputOf(operation) ==
  (CHOOSE side \in Range(sideTypes) :
     side.parts = <<baseName, operation.operationId, "Output">>).type

\* a variant of Output for a status code: a record of the read-only fields
\* status, headers and body, the body referring to Responses.$<code>
IsVariantOf(variant, code) ==
  /\ variant.kind = "typeLiteral"
  /\ Len(variant.members) = 3
  /\ variant.members[1].name = "status"
  /\ variant.members[1].type
       = IF code = "default" THEN [kind |-> "NonNullable", arg |-> Keyword("number")]
         ELSE buildLiteralType([t |-> "number", v |-> parseInt(code)])
  /\ variant.members[2].name = "headers"
  /\ variant.members[3].name = "body"
  /\ variant.members[3].type = buildTypeReference(<<"Responses", "$" \o code>>)

\* Output is a union with exactly one variant for each of the codes
OneVariantPer(output, codes) ==
  /\ output.type.kind = "union"
  /\ Len(output.type.types) = Cardinality(codes)
  /\ \A code \in codes :
       \E i \in 1..Len(output.type.types) : IsVariantOf(output.type.types[i], code)

\* the status codes listed in the responses of an operation, and those whose
\* response, once dereferenced, has a media type with a schema
ListedCodes(operation) ==
  {ResponsesOf(operation)[i].code : i \in 1..Len(ResponsesOf(operation))}
HasBodySchema(response) ==
  /\ Has(response, "content")
  /\ \E i \in 1..Len(response.content) : Has(response.content[i].media, "schema")
CodesWithSchema(operation) ==
  {ResponsesOf(operation)[i].code :
     i \in {j \in 1..Len(ResponsesOf(operation)) :
              HasBodySchema(Dereference(schema, ResponsesOf(operation)[j].response).value)}}

\* C17, as stated: the Output type of every operation has exactly one variant
\* per status code listed in the responses of the operation, each a record of
\* status, headers and body.
C17_OneVariantPerListedCode ==
  OperationsDeclared =>
    \A operation \in Range(Operations(schema)) :
      OneVariantPer(OutputOf(operation), ListedCodes(operation))

\* C17, amended: the Output type of every operation has exactly one variant
\* per listed status code whose response has at least one media type with a
\* schema, each a record of status, headers and body; when no response of the
\* operation has one, Output is the type any.
C17_OneVariantPerCodeWithSchema ==
  OperationsDeclared =>
    \A operation \in Range(Operations(schema)) :
      IF CodesWithSchema(operation) = {}
      THEN OutputOf(operation).type = Keyword("any")
      ELSE OneVariantPer(OutputOf(operation), CodesWithSchema(operation))

C17_Witness ==
  /\ entry = "openapi"
  /\ pc = "done"
  /\ \E operation \in Range(Operations(schema)) :
       /\ ListedCodes(operation) = {"200", "202"}
       /\ CodesWithSchema(operation) = {"200"}
       /\ OneVariantPer(OutputOf(operation), {"200"})

\* C18: when generateOpenAPITypes is called with options whose filterStatuses
\* lists status codes, the Output union of every operation has variants only
\* for the listed codes.
C18_OnlyFilteredStatuses ==
  (OperationsDeclared /\ Has(options, "filterStatuses")) =>
    \A operation \in Range(Operations(schema)) :
      OutputOf(operation).type.kind = "union" =>
        \A i \in 1..Len(OutputOf(operation).type.types) :
          \E code \in ListedCodes(operation) \ {"default"} :
            /\ parseInt(code) \in Range(options.filterStatuses)
            /\ IsVariantOf(OutputOf(operation).type.types[i], code)

\* C19: whenever schemaToTypes returns without error, the sequence it returns
\* holds at least one type expression, so that the declaration built from it
\* has a defined type; stated of the document root and of every declaration
\* the loop has built.
C19_AtLeastOneType ==
  /\ Translated => (types # <<>> /\ mainType.type # UndefinedNode)
  /\ \A i \in 1..Len(sideTypes) : sideTypes[i].type.type # UndefinedNode

\* every $ref written in a document, under whatever keyword it sits
RECURSIVE DocumentRefs(_)
DocumentRefs(s) ==
  LET In(key) == IF Has(s, key) THEN DocumentRefs(s[key]) ELSE {}
      InAll(key) ==
        IF Has(s, key)
        THEN UNION {DocumentRefs(s[key][i]) : i \in 1..Len(s[key])} ELSE {}
      InNamed(key) ==
        IF Has(s, key)
        THEN UNION {DocumentRefs(s[key][i].schema) : i \in 1..Len(s[key])} ELSE {}
      InRecord(key) ==
        IF Has(s, key)
        THEN UNION {DocumentRefs(s[key][k]) : k \in DOMAIN s[key]} ELSE {}
  IN IF IsBoolean(s) \/ IsUndefined(s) THEN {}
     ELSE (IF Has(s, "$ref") THEN {s["$ref"]} ELSE {})
            \cup InAll("anyOf") \cup InAll("allOf") \cup InAll("oneOf")
            \cup InNamed("properties") \cup InNamed("patternProperties")
            \cup In("additionalProperties") \cup In("A")
            \cup (IF Has(s, "items")
                  THEN UNION {DocumentRefs(s.items.schemas[i]) :
                                i \in 1..Len(s.items.schemas)}
                  ELSE {})
            \cup InRecord("definitions")

\* every $ref of the document points to a path that exists in it
AllRefsExist ==
  \A ref \in DocumentRefs(schema) :
    /\ ref # <<>>
    /\ ~resolve(schema, splitRef(ref)).threw
    /\ ~IsUndefined(resolve(schema, splitRef(ref)).value)

\* C20: a translation of a document whose $refs all point to existing paths
\* fails only with one of the three classified errors, E_BAD_TYPE,
\* E_UNSUPPORTED_ENUM and E_UNSUPPORTED_SCHEMA, never with an unclassified one.
C20_OnlyClassifiedErrors ==
  (entry = "json" /\ pc = "failed" /\ AllRefsExist) =>
    error \in {"E_BAD_TYPE", "E_UNSUPPORTED_ENUM", "E_UNSUPPORTED_SCHEMA"}

\* the Input declaration of an operation, and the position of a status code
\* or of a parameter name in the lists of the operation
InputOf(operation) ==
  (CHOOSE side \in Range(sideTypes) :
     side.parts = <<baseName, operation.operationId, "Input">>).type
CodeAt(operation, code) ==
  CHOOSE i \in 1..Len(ResponsesOf(operation)) : ResponsesOf(operation)[i].code = code
VariantCode(operation, variant) ==
  CHOOSE code \in ListedCodes(operation) : IsVariantOf(variant, code)
ParameterNames(operation) ==
  [i \in 1..Len(ParametersOf(operation)) |->
     camelCase(Dereference(schema, ParametersOf(operation)[i]).value.name)]

\* C21: whatever the interleaving of the callbacks of the responses and of
\* the parameters of an operation, the variants of Output are in the order of
\* the response codes of the operation and the parameter fields of Input in
\* the order of its parameters.
C21_FanOutKeepsOrder ==
  OperationsDeclared =>
    \A operation \in Range(Operations(schema)) :
      /\ OutputOf(operation).type.kind = "union" =>
           \A i, j \in 1..Len(OutputOf(operation).type.types) :
             i < j =>
               CodeAt(operation, VariantCode(operation, OutputOf(operation).type.types[i]))
                 < CodeAt(operation,
                          VariantCode(operation, OutputOf(operation).type.types[j]))
      /\ LET fields == InputOf(operation).type.members
             names == ParameterNames(operation)
         IN \A i, j \in 1..Len(fields) :
              (i < j /\ fields[i].name # "body" /\ fields[j].name # "body") =>
                \E p, q \in 1..Len(names) :
                  p < q /\ names[p] = fields[i].name /\ names[q] = fields[j].name

\* the schemas of the media types of a request body or response, given
\* inline or by $ref
SchemasOf(object) ==
  LET resolved == Dereference(schema, object).value
  IN IF ~IsUndefined(resolved) /\ Has(resolved, "content")
     THEN ContentSchemas(resolved.content) ELSE <<>>

\* what the working document holds at a scratch path
StoredAt(path) == resolve(schema, path).value

\* C22: once every operation has been translated, each scratch path holds
\* the schema that was stored there for the request body, response or
\* parameter it was created for: no later store has put another schema at it.
C22_ScratchKeepsFragments ==
  OperationsDeclared =>
    \A operation \in Range(Operations(schema)) :
      /\ Has(operation, "requestBody") =>
           \A i \in 1..Len(SchemasOf(operation.requestBody)) :
             StoredAt(RequestBodyPath(operation.operationId, i - 1))
               = SchemasOf(operation.requestBody)[i]
      /\ \A r \in 1..Len(ResponsesOf(operation)) :
           \A i \in 1..Len(SchemasOf(ResponsesOf(operation)[r].response)) :
             StoredAt(ResponsePath(operation.operationId,
                                   ResponsesOf(operation)[r].code, i - 1))
               = SchemasOf(ResponsesOf(operation)[r].response)[i]
      /\ \A p \in 1..Len(ParametersOf(operation)) :
           LET parameter == ParametersOf(operation)[p]
               resolved == Dereference(schema, parameter).value
               parts == splitRef(parameter["$ref"])
           IN (IsRef(parameter) /\ ~IsRef(resolved.schema)) =>
                StoredAt(ParameterPath(parts[Len(parts)])) = resolved.schema

\* C23: neither entry point changes the document passed by the caller; schema
\* is that very object, so that no step of a call that has begun may change
\* it, whether the call returns or fails.
C23_DocumentUnchanged == [][pc # "start" => schema' = schema]_vars

CombinatorStep == entry = "json" /\ ~IsBoolean(schema) /\ Dispatch(schema) = "combinator"

\* C24: for a schema that reaches the combinator step, the branches that are
\* translated and the operator that joins them come from one and the same
\* keyword among those present: the result is what that keyword alone yields.
C24_BranchesAndOperatorAgree ==
  (CombinatorStep /\ Translated) =>
    \E k \in CombinatorKeys :
      /\ Has(schema, k)
      /\ types = schemaToTypes(k :> schema[k]).types
====
